---------------------------- MODULE Spec2Model ----------------------------
(***************************************************************************)
(* A model of gtags.py (SublimeGtags): tag-root discovery                  *)
(* (find_tags_root), the subprocess runner (TagSubprocess), the tag        *)
(* queries and their output parsing (TagFile), and the include closure     *)
(* (TagFile._find_all_includes).                                           *)
(*                                                                         *)
(* A path is the sequence of its components: <<>> is "/", <<"p","a.c">>    *)
(* is "/p/a.c".  A line of text is the sequence of its characters.         *)
(***************************************************************************)
EXTENDS Integers, Sequences, FiniteSets, TLC

VARIABLES
    \* ---- the include closure (TagFile._find_all_includes)
    fs,             \* the files on disk: path |-> the quoted include targets in it
    basepaths,      \* the search roots, in priority order
    filename,       \* the seed file
    todo, done,     \* the work-set and the done-set
    pcI,            \* "loop" | "returned"
    resultI,        \* the returned set
    \* ---- tag-root discovery (find_tags_root)
    dirs,           \* the directories that exist
    marked,         \* the directories that directly contain GTAGS
    start,          \* the argument of the outermost call, as given
    current,        \* argument `current` of the active call, as given
    previous,       \* argument `previous` of the active call
    pcR,            \* "call" | "returned"
    resultR,        \* the returned directory, or None
    \* ---- output parsing (TagFile._match, line 125/172)
    out,            \* the decoded stdout of the tool
    pcP,            \* "raw" | "match" | "symbols"
    matches,        \* what _match returned
    symbols,        \* what the symbol-only comprehension returned
    \* ---- the subprocess runner and the TagFile operations
    root,           \* TagFile.__root
    init_kwargs,    \* the keyword arguments TagSubprocess was constructed with
    default_kwargs, \* TagSubprocess.default_kwargs
    launches,       \* every subprocess started so far: its command, the
                    \* keyword arguments it was started with, and those of
                    \* them the call itself gave
    ncalls,         \* the TagFile calls made so far
    last            \* the last TagFile call and its outcome

varsI == <<fs, basepaths, filename, todo, done, pcI, resultI>>
varsR == <<dirs, marked, start, current, previous, pcR, resultR>>
varsP == <<out, pcP, matches, symbols>>
varsT == <<root, init_kwargs, default_kwargs, launches, ncalls, last>>
vars == <<varsI, varsR, varsP, varsT>>

\* Python's None, as a value comparable with paths.
None == <<"<None>">>

Max(S) == CHOOSE x \in S : \A y \in S : y <= x
Min(S) == CHOOSE x \in S : \A y \in S : x <= y

-----------------------------------------------------------------------------
(* Bounds of the model.                                                    *)

\* files that exist on disk in the include-closure model
MaxFiles == 3
\* The directories serving as search roots, and the file names in them.
Roots == {<<"p">>, <<"q">>}
Names == {"a.c", "b.h", "c.h"}

\* path + "/" + filename
Join(path, name) == path \o <<name>>

AllFiles == {Join(r, n) : r \in Roots, n \in Names}

\* The seed files: one name under each root (the names are interchangeable).
SeedFiles == {Join(r, "a.c") : r \in Roots}

-----------------------------------------------------------------------------
(* The include closure.                                                    *)

\* os.path.isfile
isfile(path) == path \in DOMAIN fs

\* _find_includes: the set of quoted include targets of the file, the empty
\* set when the file does not exist.  The text scan of the file is not
\* modelled: fs holds, for each file, the targets the scan extracts.
find_includes(path) == IF ~isfile(path) THEN {} ELSE fs[path]

\* _makefullpath: the first base path under which the target is a file.
makefullpath(paths, name) ==
    LET hits == {k \in 1..Len(paths) : isfile(Join(paths[k], name))}
    IN  IF hits = {} THEN None ELSE Join(paths[Min(hits)], name)

\* A slip: the membership test forgets the done-set.
LoopBodyNoDone(paths, td, dn, progress) ==
    LET t1 == td \ {progress}
        d1 == dn \cup {progress}
        js == {makefullpath(paths, i) : i \in find_includes(progress)}
    IN  [todo |-> t1 \cup {j \in js : j # None /\ j \notin t1},
         done |-> d1]

\* A slip: the base paths are tried in reverse order, so the last match wins.
LoopBodyLastRoot(paths, td, dn, progress) ==
    LET t1 == td \ {progress}
        d1 == dn \cup {progress}
        rev == [k \in 1..Len(paths) |-> paths[Len(paths) + 1 - k]]
        js == {makefullpath(rev, i) : i \in find_includes(progress)}
    IN  [todo |-> t1 \cup {j \in js : j # None /\ j \notin t1 /\ j \notin d1},
         done |-> d1]

\* One iteration of the while loop of _find_all_includes, for the element
\* `progress` that todo.pop() removed.
LoopBody(paths, td, dn, progress) ==
    LET t1 == td \ {progress}
        d1 == dn \cup {progress}
        js == {makefullpath(paths, i) : i \in find_includes(progress)}
    IN  [todo |-> t1 \cup {j \in js : j # None /\ j \notin t1 /\ j \notin d1},
         done |-> d1]

\* Every disk of at most MaxFiles files, each with any set of include targets.
FileSystems ==
    UNION {[F -> SUBSET Names] :
             F \in {S \in SUBSET AllFiles : Cardinality(S) <= MaxFiles}}
BasePathLists ==
    {ps \in UNION {[1..n -> Roots] : n \in 1..Cardinality(Roots)} :
        \A i, j \in DOMAIN ps : i # j => ps[i] # ps[j]}

IdleI ==
    /\ fs = <<>> /\ basepaths = <<>> /\ filename = None
    /\ todo = {} /\ done = {} /\ pcI = "idle" /\ resultI = {}

\* todo=set([filename]); done=set([])
InitI ==
    /\ fs \in FileSystems
    /\ basepaths \in BasePathLists
    /\ filename \in SeedFiles
    /\ todo = {filename}
    /\ done = {}
    /\ pcI = "loop"
    /\ resultI = {}

\* while len(todo) > 0: progress = todo.pop(); ...
Iterate ==
    /\ pcI = "loop"
    /\ todo # {}
    /\ \E progress \in todo :
         LET r == LoopBody(basepaths, todo, done, progress)
         IN  todo' = r.todo /\ done' = r.done
    /\ UNCHANGED <<fs, basepaths, filename, pcI, resultI>>
    /\ UNCHANGED <<varsR, varsP, varsT>>

\* return done
Return ==
    /\ pcI = "loop"
    /\ todo = {}
    /\ pcI' = "returned"
    /\ resultI' = done
    /\ UNCHANGED <<fs, basepaths, filename, todo, done>>
    /\ UNCHANGED <<varsR, varsP, varsT>>

-----------------------------------------------------------------------------
(* Tag-root discovery.                                                     *)

\* nesting depth of the directory tree
MaxDepth == 3

\* The directory tree that may exist: the chain /a, /a/a, ... down to
\* MaxDepth, and a sibling b beside every directory of the chain.
RECURSIVE Chain(_)
Chain(n) == IF n = 0 THEN <<>> ELSE Chain(n - 1) \o <<"a">>
TreePaths ==
    {Chain(n) : n \in 0..MaxDepth}
      \cup {Chain(n) \o <<"b">> : n \in 0..(MaxDepth - 1)}

\* The start directory as the caller writes it: a path of the tree, possibly
\* with a trailing "." or ".." component.
RawPaths ==
    TreePaths \cup {p \o <<".">> : p \in TreePaths}
              \cup {p \o <<"..">> : p \in TreePaths}

IsPrefix(p, q) == Len(p) <= Len(q) /\ SubSeq(q, 1, Len(p)) = p

\* os.path.dirname of a normalised absolute path; dirname("/") is "/".
dirname(path) == IF path = <<>> THEN <<>> ELSE SubSeq(path, 1, Len(path) - 1)

\* os.path.normpath of an absolute path: "." components are dropped, ".."
\* removes the component before it, and "/.." is "/".
RECURSIVE normpath(_)
normpath(path) ==
    IF path = <<>> THEN <<>>
    ELSE LET front == normpath(SubSeq(path, 1, Len(path) - 1))
             c == path[Len(path)]
         IN  IF c = "." THEN front
             ELSE IF c = ".." THEN dirname(front)
             ELSE front \o <<c>>

\* os.path.isdir
isdir(path) == path \in dirs

\* 'GTAGS' in os.listdir(current)
HasMarker(path) == path \in marked

\* A slip: the top of the tree is recognised by the usual idiom "my parent is
\* myself", ahead of the look for the marker.
AtTopSelf(cur, parent, prev) == parent = cur

\* A slip: the top of the tree is never recognised.
AtTopNever(cur, parent, prev) == FALSE

\* parent == previous
AtTop(cur, parent, prev) == parent = prev

\* current = os.path.normpath(current); if not os.path.isdir(current): return None
ReturnNotDir ==
    /\ pcR = "call"
    /\ ~isdir(normpath(current))
    /\ pcR' = "returned"
    /\ resultR' = None
    /\ UNCHANGED <<dirs, marked, start, current, previous>>
    /\ UNCHANGED <<varsI, varsP, varsT>>

\* parent = os.path.dirname(current); if parent == previous: return None
ReturnAtTop ==
    /\ pcR = "call"
    /\ LET cur == normpath(current)
       IN  /\ isdir(cur)
           /\ AtTop(cur, dirname(cur), previous)
    /\ pcR' = "returned"
    /\ resultR' = None
    /\ UNCHANGED <<dirs, marked, start, current, previous>>
    /\ UNCHANGED <<varsI, varsP, varsT>>

\* if 'GTAGS' in os.listdir(current): return current
ReturnFound ==
    /\ pcR = "call"
    /\ LET cur == normpath(current)
       IN  /\ isdir(cur)
           /\ ~AtTop(cur, dirname(cur), previous)
           /\ HasMarker(cur)
           /\ resultR' = cur
    /\ pcR' = "returned"
    /\ UNCHANGED <<dirs, marked, start, current, previous>>
    /\ UNCHANGED <<varsI, varsP, varsT>>

\* return find_tags_root(parent, current)
Recurse ==
    /\ pcR = "call"
    /\ LET cur == normpath(current)
       IN  /\ isdir(cur)
           /\ ~AtTop(cur, dirname(cur), previous)
           /\ ~HasMarker(cur)
           /\ current' = dirname(cur)
           /\ previous' = cur
    /\ UNCHANGED <<dirs, marked, start, pcR, resultR>>
    /\ UNCHANGED <<varsI, varsP, varsT>>

\* One call of find_tags_root(current, previous).
find_tags_root == ReturnNotDir \/ ReturnAtTop \/ ReturnFound \/ Recurse

\* The directories that exist: the tree, less the subtree under one path.
DirSets ==
    {TreePaths} \cup
    {{d \in TreePaths : ~IsPrefix(hole, d)} : hole \in TreePaths \ {<<>>}}

IdleR ==
    /\ dirs = {} /\ marked = {} /\ start = None /\ current = None
    /\ previous = None /\ pcR = "idle" /\ resultR = None

\* find_tags_root(start): previous=None
InitR ==
    /\ dirs \in DirSets
    /\ marked \in SUBSET dirs
    /\ start \in RawPaths
    /\ current = start
    /\ previous = None
    /\ pcR = "call"
    /\ resultR = None

-----------------------------------------------------------------------------
(* Output parsing.                                                         *)

\* characters in a line of tool output drawn exhaustively
MaxLineLen == 7
\* lines in a batch of sample lines
MaxBatch == 2

\* \s, among the characters a line can hold after splitlines()
Whitespace == {" ", "\t"}

Alphabet == {"a", "0", "1", " "}

\* Every line of at most MaxLineLen characters over the alphabet.
Lines == UNION {[1..n -> Alphabet] : n \in 0..MaxLineLen}

\* Lines for the batches.
SampleLines ==
    {\* the well-formed line of the round-trip example
     <<"s", "y", "m", " ", "1", "0", " ", "p", "a", "t", "h", ".", "c", " ", "s", "i", "g", " ", "t", "e", "x", "t">>,
     \* two fields
     <<"s", "y", "m", " ", "1", "0">>,
     \* a blank line
     <<>>,
     \* a second field that is no number
     <<"s", "y", "m", " ", "a", "b", "c", " ", "p", "a", "t", "h", ".", "c", " ", "s", "i", "g">>,
     \* a second field that is no line number
     <<"s", "y", "m", " ", "0", " ", "p", "a", "t", "h", ".", "c", " ", "s", "i", "g">>,
     \* tab-separated, with an empty signature
     <<"f", "\t", "7", "\t", "p", ".", "c", "\t">>,
     \* leading whitespace
     <<" ", "g", " ", "3", " ", "q", ".", "h", " ", "x">>}

\* The line endings the tool writes.
LineEnds == {<<"\n">>, <<"\r", "\n">>}

RECURSIVE JoinLines(_, _)
JoinLines(ls, end) ==
    IF ls = <<>> THEN <<>> ELSE Head(ls) \o end \o JoinLines(Tail(ls), end)

\* The outputs of the tool: one line of any content, with or without its
\* newline, and batches of sample lines.
Outputs ==
    Lines \cup {l \o <<"\n">> : l \in Lines}
          \cup {JoinLines(b, e) :
                  b \in UNION {[1..n -> SampleLines] : n \in 1..MaxBatch},
                  e \in LineEnds}

\* str.splitlines(): the text is cut at every "\n", "\r" and "\r\n"; a last
\* line without a line ending counts, an empty rest after the last line
\* ending does not.
RECURSIVE SplitFrom(_, _, _, _)
SplitFrom(text, i, cur, acc) ==
    IF i > Len(text) THEN (IF cur = <<>> THEN acc ELSE Append(acc, cur))
    ELSE IF text[i] = "\r" /\ i < Len(text) /\ text[i + 1] = "\n"
         THEN SplitFrom(text, i + 2, <<>>, Append(acc, cur))
    ELSE IF text[i] \in {"\n", "\r"}
         THEN SplitFrom(text, i + 1, <<>>, Append(acc, cur))
    ELSE SplitFrom(text, i + 1, Append(cur, text[i]), acc)
splitlines(text) == SplitFrom(text, 1, <<>>, <<>>)

\* TAGS_RE up to its last group: [^\s]+ \s+ [^\s]+ \s+ [^\s]+ \s+, each
\* element a class repeated greedily; "S" is [^\s] and "s" is \s.
TAGS_RE == <<"S", "s", "S", "s", "S", "s">>

InClass(c, cls) == IF cls = "s" THEN c \in Whitespace ELSE c \notin Whitespace

\* The positions where a repetition cls+ that starts at i may end (the
\* position after its last character).
Ends(line, i, cls) ==
    {e \in (i + 1)..(Len(line) + 1) : \A k \in i..(e - 1) : InClass(line[k], cls)}

NoMatch == <<0>>

\* The backtracking match of elements k.. of TAGS_RE at position i: each
\* repetition takes the longest run with which the rest still matches.  The
\* value is the end positions of the elements, or NoMatch.
RECURSIVE MatchFrom(_, _, _)
MatchFrom(line, i, k) ==
    LET good == {e \in Ends(line, i, TAGS_RE[k]) :
                   k = Len(TAGS_RE) \/ MatchFrom(line, e, k + 1) # NoMatch}
    IN  IF good = {} THEN NoMatch
        ELSE IF k = Len(TAGS_RE) THEN <<Max(good)>>
        ELSE <<Max(good)>> \o MatchFrom(line, Max(good), k + 1)

\* A slip: re.match in place of re.search, which matches at the start of the
\* line only.
search_anchored(line) ==
    IF MatchFrom(line, 1, 1) = NoMatch THEN NoMatch
    ELSE <<1>> \o MatchFrom(line, 1, 1)

\* TAGS_RE.search(l): the match at the leftmost position that has one; the
\* value is the start position followed by the elements' end positions.
search(line) ==
    LET at == {i \in 1..(Len(line) + 1) : MatchFrom(line, i, 1) # NoMatch}
    IN  IF at = {} THEN NoMatch ELSE <<Min(at)>> \o MatchFrom(line, Min(at), 1)

\* A slip: the groups linenum and path are taken in the wrong order.
groupdict_swapped(line, m) ==
    [symbol    |-> SubSeq(line, m[1], m[2] - 1),
     linenum   |-> SubSeq(line, m[5], m[6] - 1),
     path      |-> SubSeq(line, m[3], m[4] - 1),
     signature |-> SubSeq(line, m[7], Len(line))]

\* search_obj.groupdict(): the four named groups; (?P<signature>.*) is the
\* rest of the line.
groupdict(line, m) ==
    [symbol    |-> SubSeq(line, m[1], m[2] - 1),
     linenum   |-> SubSeq(line, m[3], m[4] - 1),
     path      |-> SubSeq(line, m[5], m[6] - 1),
     signature |-> SubSeq(line, m[7], Len(line))]

\* The loop of _match: the groupdict of every line that TAGS_RE finds.
RECURSIVE MatchLines(_)
MatchLines(ls) ==
    IF ls = <<>> THEN <<>>
    ELSE LET m == search(Head(ls))
         IN  (IF m = NoMatch THEN <<>> ELSE <<groupdict(Head(ls), m)>>)
               \o MatchLines(Tail(ls))

\* line.split(" ",2)[0]: the line up to its first space, the whole line when
\* it has none.
FirstField(line) ==
    LET sp == {i \in 1..Len(line) : line[i] = " "}
    IN  IF sp = {} THEN line ELSE SubSeq(line, 1, Min(sp) - 1)

\* [line.split(" ",2)[0] for line in out.splitlines()]
SymbolColumn(text) ==
    LET ls == splitlines(text) IN [k \in 1..Len(ls) |-> FirstField(ls[k])]

\* _match, from the decoded output on.
MatchParse ==
    /\ pcP = "raw"
    /\ pcP' = "match"
    /\ matches' = MatchLines(splitlines(out))
    /\ UNCHANGED <<out, symbols>>
    /\ UNCHANGED <<varsI, varsR, varsT>>

\* open_files_symbols and current_include_path, from the decoded output on.
SymbolsParse ==
    /\ pcP = "raw"
    /\ pcP' = "symbols"
    /\ symbols' = SymbolColumn(out)
    /\ UNCHANGED <<out, matches>>
    /\ UNCHANGED <<varsI, varsR, varsT>>

IdleP == out = <<>> /\ pcP = "idle" /\ matches = <<>> /\ symbols = <<>>

InitP == out \in Outputs /\ pcP = "raw" /\ matches = <<>> /\ symbols = <<>>

-----------------------------------------------------------------------------
(* The subprocess runner and the TagFile operations.                       *)

\* TagFile calls in one run
MaxCalls == 3

PIPE == "PIPE"
ENV_PATH == "/usr/bin:/bin"

Home == <<"home", "u">>

\* The directories that exist where the commands run.
ExistingDirs == {<<>>, <<"p">>, <<"q">>, Home, Home \o <<"proj">>}

\* What TagFile may be constructed with: root_dir and extra_paths.
RootDirs == {None, <<"p">>, <<"$HOME", "proj">>}
ExtraPaths == {<<>>, <<<<"~", "lib">>>>}

\* The files on disk while the TagFile operations run: p/a.c and p/b.h
\* include each other.
SampleDisk ==
    (<<"p", "a.c">> :> {"b.h", "missing.h"}) @@ (<<"p", "b.h">> :> {"a.c"})

\* The file names of the views that may be open in the window.
ViewLists ==
    {<<>>, <<<<"p", "new.c">>>>, <<<<"p", "a.c">>>>,
     <<<<"p", "new.c">>, <<"p", "a.c">>>>}

\* The file current_include_path may be asked about, and the project data
\* of the window: none, or a project file in q with the folder ../p.
ScopeFiles == {<<"p", "a.c">>, <<"q", "x.c">>}
NoProject == [file |-> None, folders |-> <<>>]
Projects ==
    {NoProject, [file |-> <<"q", "x.sublime-project">>, folders |-> <<<<"..", "p">>>>]}

\* What the tool may write to stdout for a query, and gtags to stderr.
SampleOutputs ==
    {<<>>,
     <<"f", " ", "7", " ", "p", " ", "s", "\n", "\n", "g", " ", "x", " ", "q", " ", "\n">>}
ExitCodes == {0, 1, 3, -9}
StderrTexts == {"gtags: GTAGS not writable"}

\* os.path.expandvars(os.path.expanduser(path)): a leading ~ or $HOME
\* becomes the home directory.
expand_path(path) ==
    IF path # <<>> /\ Head(path) \in {"~", "$HOME"}
    THEN Home \o Tail(path) ELSE path

\* TagFile.__init__: the environment of every subprocess.
Env(root_dir, extra_paths) ==
    ("PATH" :> ENV_PATH)
      @@ (IF root_dir # None THEN "GTAGSROOT" :> expand_path(root_dir) ELSE <<>>)
      @@ (IF extra_paths # <<>>
          THEN "GTAGSLIBPATH" :>
                 [k \in 1..Len(extra_paths) |-> expand_path(extra_paths[k])]
          ELSE <<>>)

\* TagSubprocess.__init__: the keyword arguments it keeps, with shell=True
\* on Windows.
InitKwargs(env, is_windows) ==
    ("env" :> env) @@ (IF is_windows THEN "shell" :> TRUE ELSE <<>>)

\* TagSubprocess.create: final_kwargs = self.default_kwargs;
\* final_kwargs.update(kwargs).  final_kwargs is the dictionary
\* default_kwargs itself, so the update is an update of default_kwargs.
FinalKwargs(kwargs) == kwargs @@ default_kwargs

\* subprocess.Popen raises OSError when the working directory it is given
\* does not exist.
PopenRaises(kwargs) ==
    /\ "cwd" \in DOMAIN kwargs
    /\ kwargs["cwd"] # None
    /\ kwargs["cwd"] \notin ExistingDirs

NoOutcome ==
    [op |-> "none", raised |-> FALSE, launched |-> FALSE, files |-> <<>>,
     retcode |-> 0, printed |-> <<>>, result |-> <<>>]

\* TagSubprocess.create, for a call whose result is `outcome` when the
\* subprocess starts: default_kwargs is updated, and the subprocess is
\* started with it unless Popen raises.
create(command, kwargs, outcome) ==
    LET final_kwargs == FinalKwargs(kwargs)
    IN  /\ default_kwargs' = final_kwargs
        /\ IF PopenRaises(final_kwargs)
           THEN /\ launches' = launches
                /\ last' = [NoOutcome EXCEPT !.op = outcome.op,
                                             !.files = outcome.files,
                                             !.raised = TRUE]
           ELSE /\ launches' = Append(launches,
                                      [command |-> command,
                                       kwargs |-> final_kwargs,
                                       own |-> kwargs])
                /\ last' = [outcome EXCEPT !.launched = TRUE]
        /\ ncalls' = ncalls + 1
        /\ UNCHANGED <<root, init_kwargs>>

\* TagSubprocess.stdout: create(command, stdout=subprocess.PIPE, **kwargs)
StdoutKwargs == "stdout" :> PIPE

\* TagSubprocess.call: create(command, stderr=subprocess.PIPE, **kwargs)
CallKwargs(kwargs) == ("stderr" :> PIPE) @@ kwargs

\* start_with(prefix): the lines of the output of global -c prefix.
start_with ==
    /\ ncalls < MaxCalls
    /\ \E text \in SampleOutputs :
         create(<<"global", "-c", "Exp_Set">>, StdoutKwargs,
                [NoOutcome EXCEPT !.op = "start_with",
                                  !.result = splitlines(text)])
    /\ UNCHANGED <<varsI, varsR, varsP>>

\* match(pattern, reference): _match(pattern, '-ax' + ('r' if reference else ''))
match ==
    /\ ncalls < MaxCalls
    /\ \E reference \in BOOLEAN, text \in SampleOutputs :
         create(<<"global", IF reference THEN "-axr" ELSE "-ax", "ExpAddData">>,
                StdoutKwargs,
                [NoOutcome EXCEPT !.op = "match",
                                  !.result = MatchLines(splitlines(text))])
    /\ UNCHANGED <<varsI, varsR, varsP>>

\* A slip: success = bool(retcode).
success_truthy(retcode) == retcode # 0

\* success = retcode == 0
success(retcode) == retcode = 0

\* rebuild(): gtags -v in the tag root; stderr is printed when it fails.
rebuild ==
    /\ ncalls < MaxCalls
    /\ \E retcode \in ExitCodes, stderr \in StderrTexts :
         create(<<"gtags", "-v">>, CallKwargs("cwd" :> root),
                [NoOutcome EXCEPT
                   !.op = "rebuild",
                   !.retcode = retcode,
                   !.printed = IF ~success(retcode) THEN <<stderr>> ELSE <<>>,
                   !.result = success(retcode)])
    /\ UNCHANGED <<varsI, varsR, varsP>>

\* open_files_symbols(): global -q -f with the open views that are files;
\* without a file the tool writes nothing to stdout.
open_files_symbols ==
    /\ ncalls < MaxCalls
    /\ \E views \in ViewLists, text \in SampleOutputs :
         LET files == SelectSeq(views, isfile)
         IN  /\ files = <<>> => text = <<>>
             /\ create(<<"global", "-q", "-f">> \o files, StdoutKwargs,
                       [NoOutcome EXCEPT !.op = "open_files_symbols",
                                         !.files = files,
                                         !.result = SymbolColumn(text)])
    /\ UNCHANGED <<varsI, varsR, varsP>>

\* _find_all_includes run to its end.  todo.pop() removes any element; one
\* is chosen here, since the returned set does not depend on the order.
RECURSIVE find_all_includes(_, _, _)
find_all_includes(paths, td, dn) ==
    IF td = {} THEN dn
    ELSE LET r == LoopBody(paths, td, dn, CHOOSE progress \in td : TRUE)
         IN  find_all_includes(paths, r.todo, r.done)

\* current_include_path: the base paths are the directory of the file, or
\* with project data the folders of the project.
ProjectBasePaths(file, project) ==
    IF project = NoProject THEN <<dirname(file)>>
    ELSE [k \in 1..Len(project.folders) |->
            normpath(dirname(project.file) \o project.folders[k])]

\* current_include_path(filename): global -f with the include closure of the
\* file, in the order the set yields its elements.
current_include_path ==
    /\ ncalls < MaxCalls
    /\ \E file \in ScopeFiles, project \in Projects, text \in SampleOutputs :
         LET closure == find_all_includes(ProjectBasePaths(file, project),
                                          {file}, {})
         IN  \E files \in [1..Cardinality(closure) -> closure] :
               /\ \A i, j \in DOMAIN files : i # j => files[i] # files[j]
               /\ create(<<"global", "-f">> \o files, StdoutKwargs,
                         [NoOutcome EXCEPT !.op = "current_include_path",
                                           !.files = files,
                                           !.result = SymbolColumn(text)])
    /\ UNCHANGED <<varsI, varsR, varsP>>

\* TagFile(root_dir, extra_paths), on Windows or elsewhere.
InitT ==
    /\ root \in RootDirs
    /\ \E extra_paths \in ExtraPaths, is_windows \in BOOLEAN :
         init_kwargs = InitKwargs(Env(root, extra_paths), is_windows)
    /\ default_kwargs = init_kwargs
    /\ launches = <<>>
    /\ ncalls = 0
    /\ last = NoOutcome

\* The disk while the TagFile operations run.
DiskI ==
    /\ fs = SampleDisk /\ basepaths = <<>> /\ filename = None
    /\ todo = {} /\ done = {} /\ pcI = "idle" /\ resultI = {}

IdleT ==
    /\ root = None /\ init_kwargs = <<>> /\ default_kwargs = <<>>
    /\ launches = <<>> /\ ncalls = 0 /\ last = <<>>

-----------------------------------------------------------------------------
(* The specifications.                                                     *)

InitClosure == InitI /\ IdleR /\ IdleP /\ IdleT
NextClosure == Iterate \/ Return
SpecClosure == InitClosure /\ [][NextClosure]_vars
\* The loop of _find_all_includes runs on: nothing suspends it.
FairSpecClosure == SpecClosure /\ WF_vars(NextClosure)

InitRoot == IdleI /\ InitR /\ IdleP /\ IdleT
NextRoot == find_tags_root
SpecRoot == InitRoot /\ [][NextRoot]_vars
\* The recursion of find_tags_root runs on: nothing suspends it.
FairSpecRoot == SpecRoot /\ WF_vars(NextRoot)

InitParse == IdleI /\ IdleR /\ InitP /\ IdleT
NextParse == MatchParse \/ SymbolsParse
SpecParse == InitParse /\ [][NextParse]_vars

InitProc == DiskI /\ IdleR /\ IdleP /\ InitT
NextProc ==
    start_with \/ match \/ rebuild \/ open_files_symbols \/ current_include_path
SpecProc == InitProc /\ [][NextProc]_vars

-----------------------------------------------------------------------------
(* The include closure: claims.                                            *)

\* File q is what a quoted include of file p resolves to: the target under
\* the first base path where it exists.
Edge(p, q) ==
    /\ p \in DOMAIN fs
    /\ \E n \in fs[p] : \E k \in 1..Len(basepaths) :
         /\ q = basepaths[k] \o <<n>>
         /\ q \in DOMAIN fs
         /\ \A m \in 1..(k - 1) : (basepaths[m] \o <<n>>) \notin DOMAIN fs

RECURSIVE ReachFrom(_)
ReachFrom(S) ==
    LET S2 == S \cup {q \in AllFiles : \E p \in S : Edge(p, q)}
    IN  IF S2 = S THEN S ELSE ReachFrom(S2)

\* C1: on every include graph, cyclic or not, and for every choice todo.pop()
\* makes, _find_all_includes reaches its return: todo becomes empty.
C1_Terminates == <>(pcI = "returned" /\ todo = {})

\* C1 witness: the closure has returned on a graph with a cycle of two files
\* and on one where a file includes itself.
C1_Witness ==
    /\ pcI = "returned"
    /\ \E p, q \in resultI : p # q /\ Edge(p, q) /\ Edge(q, p) /\ p = filename
    /\ \E p \in resultI : Edge(p, p)

\* C2: whatever the removal order, the returned set is the seed together with
\* every file reachable from it through quoted includes, each resolved under
\* the first base path that has it; an include that resolves nowhere adds
\* nothing.
C2_ClosureIsReachable == pcI = "returned" => resultI = ReachFrom({filename})

\* C2 witness: a returned closure of three files that stepped over an include
\* no base path resolves and over one that two base paths resolve.
C2_Witness ==
    /\ pcI = "returned"
    /\ Cardinality(resultI) >= 3
    /\ \E p \in resultI : \E n \in find_includes(p) :
         makefullpath(basepaths, n) = None
    /\ \E p \in resultI : \E n \in find_includes(p) :
         Cardinality({k \in 1..Len(basepaths) :
                        isfile(Join(basepaths[k], n))}) = 2

-----------------------------------------------------------------------------
(* Tag-root discovery: claims.                                             *)

\* The directories at or above the start directory that hold the marker.
MarkedAbove == {D \in marked : IsPrefix(D, normpath(start))}

Deepest(S) == CHOOSE D \in S : \A E \in S : Len(E) <= Len(D)

\* C4 as stated: started in an existing directory, find_tags_root returns
\* every marked directory D at or above it.
C4_ReturnsAnyMarkedAncestor ==
    (pcR = "returned" /\ isdir(normpath(start))) =>
        \A D \in MarkedAbove : resultR = D

\* C4 amended: started in an existing directory with a marked directory at or
\* above it, find_tags_root returns the deepest such directory: D itself
\* when no directory between D and the start holds a marker of its own.
C4_ReturnsNearestMarked ==
    (pcR = "returned" /\ isdir(normpath(start)) /\ MarkedAbove # {}) =>
        resultR = Deepest(MarkedAbove)

\* C4 witness: the walk went up three levels, from D/a/a/a to D, past
\* a marked sibling directory.
C4_Witness ==
    /\ pcR = "returned"
    /\ isdir(normpath(start))
    /\ MarkedAbove = {resultR}
    /\ Len(normpath(start)) = Len(resultR) + 3
    /\ \E E \in marked : ~IsPrefix(E, normpath(start))

NoMarkerAbove == isdir(normpath(start)) /\ MarkedAbove = {}

-----------------------------------------------------------------------------
(* Output parsing: claims.                                                 *)

\* The fields of a line: its maximal runs of non-whitespace, each as the
\* pair of its first and last position, left to right.
FieldSpans(line) ==
    LET first == {i \in 1..Len(line) :
                    /\ line[i] \notin Whitespace
                    /\ (i = 1 \/ line[i - 1] \in Whitespace)}
        lastOf(i) == Min({j \in i..Len(line) :
                            j = Len(line) \/ line[j + 1] \in Whitespace})
        RECURSIVE Ordered(_)
        Ordered(S) == IF S = {} THEN <<>>
                      ELSE <<<<Min(S), lastOf(Min(S))>>>> \o Ordered(S \ {Min(S)})
    IN  Ordered(first)

Field(line, k) == SubSeq(line, FieldSpans(line)[k][1], FieldSpans(line)[k][2])

\* The four-field shape: three fields, whitespace after the third, and the
\* rest of the line (possibly nothing) as the fourth.
FitsShape(line) ==
    /\ Len(FieldSpans(line)) >= 3
    /\ FieldSpans(line)[3][2] < Len(line)

\* The rest of a line of the shape: from its fourth field on, or nothing.
Remainder(line) ==
    IF Len(FieldSpans(line)) >= 4
    THEN SubSeq(line, FieldSpans(line)[4][1], Len(line))
    ELSE <<>>

RecordOf(line) ==
    [symbol |-> Field(line, 1), linenum |-> Field(line, 2),
     path |-> Field(line, 3), signature |-> Remainder(line)]

ShapedLines == SelectSeq(splitlines(out), FitsShape)

\* C6: _match returns one record per line of the four-field shape, in the
\* order of the lines, and nothing for any other line.
C6_OneRecordPerShapedLine ==
    pcP = "match" =>
        /\ Len(matches) = Len(ShapedLines)
        /\ \A k \in 1..Len(matches) :
             /\ matches[k].symbol = Field(ShapedLines[k], 1)
             /\ matches[k].path = Field(ShapedLines[k], 3)
             /\ matches[k].signature = Remainder(ShapedLines[k])

\* C6 witness: a batch of two lines, the first malformed and the second
\* well-formed, has been parsed into the one record of the second.
C6_Witness ==
    /\ pcP = "match"
    /\ Len(splitlines(out)) = 2
    /\ ~FitsShape(splitlines(out)[1])
    /\ FitsShape(splitlines(out)[2])
    /\ matches = <<RecordOf(splitlines(out)[2])>>

Digits == {"0", "1", "2", "3", "4", "5", "6", "7", "8", "9"}

\* The text reads as an integer greater than or equal to 1.
IsLineNumber(text) ==
    /\ text # <<>>
    /\ \A k \in 1..Len(text) : text[k] \in Digits
    /\ \E k \in 1..Len(text) : text[k] # "0"

\* C7 as stated: every record _match returns has a line number that is an
\* integer greater than or equal to 1.
C7_LinenumIsPositiveInteger ==
    pcP = "match" => \A k \in 1..Len(matches) : IsLineNumber(matches[k].linenum)

\* C7 amended: every record _match returns carries, as linenum, the second
\* field of its line as written: a non-empty text without whitespace, a
\* number or not.
C7_LinenumIsSecondField ==
    pcP = "match" =>
        /\ Len(matches) = Len(ShapedLines)
        /\ \A k \in 1..Len(matches) :
             /\ matches[k].linenum = Field(ShapedLines[k], 2)
             /\ matches[k].linenum # <<>>
             /\ \A i \in 1..Len(matches[k].linenum) :
                  matches[k].linenum[i] \notin Whitespace

\* C7 witness: a batch was parsed into a record whose linenum is a number
\* and a record whose linenum is none.
C7_Witness ==
    /\ pcP = "match"
    /\ \E k \in 1..Len(matches) : IsLineNumber(matches[k].linenum)
    /\ \E k \in 1..Len(matches) : ~IsLineNumber(matches[k].linenum)

\* The leading token of a line, up to its first run of whitespace.
LeadingToken(line) ==
    LET ws == {i \in 1..Len(line) : line[i] \in Whitespace}
    IN  IF ws = {} THEN line ELSE SubSeq(line, 1, Min(ws) - 1)

\* C10: in the symbol-only mode every non-empty line contributes its leading
\* token and an empty line contributes nothing, so that no element of the
\* result is empty.
C10_NoEmptySymbol ==
    pcP = "symbols" =>
        LET full == SelectSeq(splitlines(out), LAMBDA l : l # <<>>)
        IN  /\ \A k \in 1..Len(symbols) : symbols[k] # <<>>
            /\ Len(symbols) = Len(full)
            /\ \A k \in 1..Len(symbols) : symbols[k] = LeadingToken(full[k])

-----------------------------------------------------------------------------
(* The subprocess runner and the TagFile operations: claims.               *)

\* C3 as stated: open_files_symbols with no open view that is a file returns
\* the empty sequence and starts no subprocess.
C3_NoFilesNoSubprocess ==
    (last.op = "open_files_symbols" /\ last.files = <<>>) =>
        /\ ~last.launched
        /\ ~last.raised
        /\ last.result = <<>>

\* C8: when the subprocess of rebuild() has exited, rebuild has returned
\* true exactly for exit code zero, has printed the captured stderr exactly
\* for every other exit code, and has raised nothing.
C8_RebuildReturnsExitZero ==
    (last.op = "rebuild" /\ last.launched) =>
        /\ last.result = (last.retcode = 0)
        /\ last.retcode # 0 => last.printed # <<>> /\ last.printed \in Seq(StderrTexts)
        /\ last.retcode = 0 => last.printed = <<>>
        /\ ~last.raised

\* C8 witness: a rebuild whose subprocess was killed by a signal (a negative
\* exit code) has returned false and printed its stderr.
C8_Witness ==
    /\ last.op = "rebuild"
    /\ last.launched
    /\ last.retcode < 0
    /\ last.result = FALSE
    /\ last.printed # <<>>

\* C9 as stated: every subprocess was started with exactly the options of
\* the construction plus the options of its own call, none left by an
\* earlier call.
C9_LaunchedWithOwnOptionsOnly ==
    \A k \in 1..Len(launches) :
        launches[k].kwargs = launches[k].own @@ init_kwargs

=============================================================================
